---- MODULE Spec2Model ----
(***************************************************************************)
(* rust-ipld: the DAG-JSON codec (dag-json/src/codec.rs) and the verified  *)
(* Block / RawBlock pair (src/block.rs).                                   *)
(*                                                                         *)
(* Text is held as sequences of ASCII codes, so that key order, base64 and *)
(* number tokens are computed on the characters themselves.  Integers of   *)
(* the IPLD model are 128 bits wide; they are held as sign and decimal     *)
(* digits, and the 64-bit limits of the JSON reader are the true ones.     *)
(***************************************************************************)
EXTENDS Integers, Sequences, FiniteSets, TLC

VARIABLES
    ipld,      \* the IPLD value the producer holds (codec.rs: &Ipld)
    hist,      \* keys inserted into the top-level Map, in insertion order
    doc,       \* the JSON document on the wire (encode's output / decode's input)
    origin,    \* "none" | "encode" | "input": where doc comes from
    out,       \* the result of decode(doc), or NoResult
    blocks,    \* the Block<TCodec, THash> values that exist
    raws,      \* the RawBlock in flight, if any (a set of at most one)
    last       \* the last Block operation and its result

vars == <<ipld, hist, doc, origin, out, blocks, raws, last>>

RECURSIVE StripTrailingZeros(_), StripLeadingZeros(_), Increment(_), DigitsToNat(_), NatToDigits(_)
RECURSIVE Base64Encode(_), DecodeChunks(_), Varint(_), VarintValue(_, _, _)
RECURSIVE FromIter(_), serialize(_), deserialize(_)
RECURSIVE Render(_), Join(_), Fold(_, _, _)
RECURSIVE Nodes(_), DocNodes(_), SumSeq(_), Positions(_), At(_, _), ValAt(_, _, _), Visible(_, _), HasBytes(_)

-----------------------------------------------------------------------------
(* Bounds of the model.                                                    *)

\* most nodes (scalars and containers) of a value or document that is built
MaxNodes == 4
\* bytes of a digest (32 for SHA2-256; the model keeps fewer)
DigestLen == 2
\* most distinct Block values held at once
MaxBlocks == 1

-----------------------------------------------------------------------------
(* Text and ordering.                                                      *)

Range(s) == {s[i] : i \in 1..Len(s)}

\* Rust's Ord for String: byte-wise lexicographic, a proper prefix first.
StrLess(a, b) ==
    \E i \in 1..(Len(b)) :
        /\ \A j \in 1..(i - 1) : j <= Len(a) /\ a[j] = b[j]
        /\ \/ i = Len(a) + 1
           \/ i <= Len(a) /\ a[i] < b[i]

\* const LINK_KEY: &str = "/"
LINK_KEY == <<47>>

-----------------------------------------------------------------------------
(* 128-bit integers as sign and decimal digits.                            *)

DigitsLE(a, b) ==
    \/ Len(a) < Len(b)
    \/ /\ Len(a) = Len(b)
       /\ \/ a = b
          \/ \E i \in 1..Len(a) :
                /\ \A j \in 1..(i - 1) : a[j] = b[j]
                /\ a[i] < b[i]

\* u64::MAX = 18446744073709551615
U64Max == <<1,8,4,4,6,7,4,4,0,7,3,7,0,9,5,5,1,6,1,5>>
\* |i64::MIN| = 9223372036854775808
I64MinAbs == <<9,2,2,3,3,7,2,0,3,6,8,5,4,7,7,5,8,0,8>>
\* i128::MAX = 170141183460469231731687303715884105727
I128Max == <<1,7,0,1,4,1,1,8,3,4,6,0,4,6,9,2,3,1,7,3,1,6,8,7,3,0,3,7,1,5,8,8,4,1,0,5,7,2,7>>
\* |i128::MIN| = 170141183460469231731687303715884105728
I128MinAbs == <<1,7,0,1,4,1,1,8,3,4,6,0,4,6,9,2,3,1,7,3,1,6,8,7,3,0,3,7,1,5,8,8,4,1,0,5,7,2,8>>

Int128(neg, digits) == [neg |-> neg, digits |-> digits]

InI128(i) == IF i.neg THEN DigitsLE(i.digits, I128MinAbs) ELSE DigitsLE(i.digits, I128Max)

-----------------------------------------------------------------------------
(* 64-bit floats, held as a decimal significand and exponent: the value is *)
(* mant * 10^exp, mant without leading or trailing zeros.                  *)

\* significant decimal digits that determine an f64
F64Digits == 17

NaN == [class |-> "nan"]
Infinity(neg) == [class |-> "inf", neg |-> neg]

StripTrailingZeros(d) ==
    IF Len(d) > 1 /\ d[Len(d)] = 0 THEN StripTrailingZeros(SubSeq(d, 1, Len(d) - 1)) ELSE d

StripLeadingZeros(d) ==
    IF Len(d) > 1 /\ d[1] = 0 THEN StripLeadingZeros(Tail(d)) ELSE d

Increment(d) ==
    IF d = <<>> THEN <<1>>
    ELSE IF d[Len(d)] < 9 THEN [d EXCEPT ![Len(d)] = @ + 1]
    ELSE Increment(SubSeq(d, 1, Len(d) - 1)) \o <<0>>

DigitsToNat(d) ==
    IF d = <<>> THEN 0 ELSE 10 * DigitsToNat(SubSeq(d, 1, Len(d) - 1)) + d[Len(d)]

NatToDigits(n) ==
    IF n < 10 THEN <<n>> ELSE NatToDigits(n \div 10) \o <<n % 10>>

\* mant * 10^exp rounded to F64Digits significant digits and normalised
Finite(neg, mant, exp) ==
    LET m0 == StripLeadingZeros(mant)
        cut == Len(m0) > F64Digits
        m1 == IF ~cut THEN m0
              ELSE IF m0[F64Digits + 1] >= 5 THEN Increment(SubSeq(m0, 1, F64Digits))
              ELSE SubSeq(m0, 1, F64Digits)
        e1 == IF cut THEN exp + (Len(m0) - F64Digits) ELSE exp
        m2 == StripTrailingZeros(m1)
    IN  IF m2 = <<0>> THEN [class |-> "finite", neg |-> neg, mant |-> <<0>>, exp |-> 0]
        ELSE [class |-> "finite", neg |-> neg, mant |-> m2, exp |-> e1 + (Len(m1) - Len(m2))]

-----------------------------------------------------------------------------
(* Number tokens of JSON text (serde_json's writer and reader).            *)

IsDigit(c) == c \in 48..57
AsciiDigits(d) == [k \in 1..Len(d) |-> 48 + d[k]]
DigitValues(t) == [k \in 1..Len(t) |-> t[k] - 48]
Zeros(n) == [k \in 1..n |-> 0]
Sign(neg) == IF neg THEN <<45>> ELSE <<>>

\* Serializer::serialize_i128: the decimal digits, '-' first when negative
FormatI128(i) == Sign(i.neg) \o AsciiDigits(i.digits)

\* Serializer::serialize_f64 of a finite value: the shortest digits, with a
\* fraction point, or in exponent form from 1e16 on
FormatF64(f) ==
    LET k == Len(f.mant)
        e == f.exp
    IN  Sign(f.neg) \o
        (IF e < 0 /\ -e < k
            THEN AsciiDigits(SubSeq(f.mant, 1, k + e)) \o <<46>> \o AsciiDigits(SubSeq(f.mant, k + e + 1, k))
         ELSE IF e < 0
            THEN <<48, 46>> \o AsciiDigits(Zeros(-e - k) \o f.mant)
         ELSE IF k + e <= 16
            THEN AsciiDigits(f.mant \o Zeros(e)) \o <<46, 48>>
         ELSE AsciiDigits(<<f.mant[1]>>)
              \o (IF k > 1 THEN <<46>> \o AsciiDigits(Tail(f.mant)) ELSE <<>>)
              \o <<101>> \o AsciiDigits(NatToDigits(k + e - 1)))

\* the index after the run of digits that starts at i
DigitRunEnd(t, i) ==
    CHOOSE j \in i..(Len(t) + 1) :
        /\ \A k \in i..(j - 1) : IsDigit(t[k])
        /\ j = Len(t) + 1 \/ ~IsDigit(t[j])

\* Deserializer::parse_any_number: an integer token is kept as u64 (or i64
\* when negative) while it fits, and read as f64 from there on; a token with
\* a fraction or an exponent is an f64
ParseNumber(t) ==
    LET neg == t[1] = 45
        s == IF neg THEN 2 ELSE 1
        n == DigitRunEnd(t, s)
        int == DigitValues(SubSeq(t, s, n - 1))
    IN  IF n > Len(t)
        THEN IF ~neg
             THEN IF DigitsLE(int, U64Max)
                  THEN [num |-> "U64", v |-> Int128(FALSE, int)]
                  ELSE [num |-> "F64", v |-> Finite(FALSE, int, 0)]
             ELSE IF DigitsLE(int, I64MinAbs)
                  THEN [num |-> "I64", v |-> Int128(int # <<0>>, int)]
                  ELSE [num |-> "F64", v |-> Finite(TRUE, int, 0)]
        ELSE LET hasFrac == t[n] = 46
                 fEnd == IF hasFrac THEN DigitRunEnd(t, n + 1) ELSE n
                 frac == IF hasFrac THEN DigitValues(SubSeq(t, n + 1, fEnd - 1)) ELSE <<>>
                 hasExp == fEnd <= Len(t)
                 eNeg == hasExp /\ t[fEnd + 1] = 45
                 eFrom == IF hasExp /\ t[fEnd + 1] \in {43, 45} THEN fEnd + 2 ELSE fEnd + 1
                 eAbs == IF hasExp THEN DigitsToNat(DigitValues(SubSeq(t, eFrom, Len(t)))) ELSE 0
             IN  [num |-> "F64",
                  v |-> Finite(neg, int \o frac, (IF eNeg THEN -eAbs ELSE eAbs) - Len(frac))]

-----------------------------------------------------------------------------
(* base64 (the standard alphabet, '=' padding).                            *)

Base64Char(v) ==
    IF v < 26 THEN 65 + v
    ELSE IF v < 52 THEN 97 + (v - 26)
    ELSE IF v < 62 THEN 48 + (v - 52)
    ELSE IF v = 62 THEN 43 ELSE 47

IsBase64Char(c) == c \in (65..90) \cup (97..122) \cup (48..57) \cup {43, 47}

Base64Value(c) ==
    IF c \in 65..90 THEN c - 65
    ELSE IF c \in 97..122 THEN c - 97 + 26
    ELSE IF c \in 48..57 THEN c - 48 + 52
    ELSE IF c = 43 THEN 62 ELSE 63

\* base64::encode
Base64Encode(b) ==
    IF Len(b) = 0 THEN <<>>
    ELSE IF Len(b) = 1 THEN
        <<Base64Char(b[1] \div 4), Base64Char((b[1] % 4) * 16), 61, 61>>
    ELSE IF Len(b) = 2 THEN
        <<Base64Char(b[1] \div 4), Base64Char((b[1] % 4) * 16 + b[2] \div 16),
          Base64Char((b[2] % 16) * 4), 61>>
    ELSE
        <<Base64Char(b[1] \div 4), Base64Char((b[1] % 4) * 16 + b[2] \div 16),
          Base64Char((b[2] % 16) * 4 + b[3] \div 64), Base64Char(b[3] % 64)>>
        \o Base64Encode(SubSeq(b, 4, Len(b)))

\* the bytes of a run of 6-bit values; the last, partial group gives 1 or 2 bytes
DecodeChunks(v) ==
    IF Len(v) < 2 THEN <<>>
    ELSE IF Len(v) = 2 THEN <<v[1] * 4 + v[2] \div 16>>
    ELSE IF Len(v) = 3 THEN <<v[1] * 4 + v[2] \div 16, (v[2] % 16) * 16 + v[3] \div 4>>
    ELSE <<v[1] * 4 + v[2] \div 16, (v[2] % 16) * 16 + v[3] \div 4, (v[3] % 4) * 64 + v[4]>>
         \o DecodeChunks(SubSeq(v, 5, Len(v)))

\* base64::decode: fails on a symbol outside the alphabet, on a length that
\* leaves a lone symbol, and on a last symbol with bits that belong to no byte
Base64Decode(s) ==
    LET pad == IF Len(s) >= 2 /\ s[Len(s)] = 61 /\ s[Len(s) - 1] = 61 THEN 2
               ELSE IF Len(s) >= 1 /\ s[Len(s)] = 61 THEN 1 ELSE 0
        body == SubSeq(s, 1, Len(s) - pad)
        v == [k \in 1..Len(body) |-> Base64Value(body[k])]
        r == Len(body) % 4
    IN  IF \E k \in 1..Len(body) : ~IsBase64Char(body[k])
            THEN [ok |-> FALSE, err |-> "InvalidByte"]
        ELSE IF r = 1
            THEN [ok |-> FALSE, err |-> "InvalidLength"]
        ELSE IF \/ r = 2 /\ v[Len(v)] % 16 # 0
                \/ r = 3 /\ v[Len(v)] % 4 # 0
            THEN [ok |-> FALSE, err |-> "InvalidLastSymbol"]
        ELSE [ok |-> TRUE, bytes |-> DecodeChunks(v)]

-----------------------------------------------------------------------------
(* Content identifiers (the cid and multihash crates).                     *)

HashCode(h) == CASE h = "Sha2_256" -> 18 [] h = "Blake2b256" -> 45600
HashCodes == {HashCode("Sha2_256"), HashCode("Blake2b256")}

CodecCode(c) == CASE c = "DagProtobuf" -> 112 [] c = "DagCbor" -> 113 [] c = "DagJson" -> 297
CodecCodes == {CodecCode("DagProtobuf"), CodecCode("DagCbor"), CodecCode("DagJson")}

Multihash(code, digest) == [code |-> code, digest |-> digest]

\* Cid::new_v0 / Cid::new_v1
CidV0(hash) == [version |-> 0, codec |-> CodecCode("DagProtobuf"), hash |-> hash]
CidV1(codec, hash) == [version |-> 1, codec |-> codec, hash |-> hash]

\* unsigned LEB128
Varint(n) == IF n < 128 THEN <<n>> ELSE <<128 + (n % 128)>> \o Varint(n \div 128)

VarintValue(b, i, j) == IF i = j THEN b[i] ELSE (b[i] - 128) + 128 * VarintValue(b, i + 1, j)

\* the varint that starts at byte i: its value and the index after it
ReadVarint(b, i) ==
    LET ends == {j \in i..Len(b) : b[j] < 128 /\ \A k \in i..(j - 1) : b[k] >= 128}
    IN  IF i > Len(b) \/ ends = {} THEN [ok |-> FALSE]
        ELSE LET j == CHOOSE e \in ends : TRUE
             IN  [ok |-> TRUE, v |-> VarintValue(b, i, j), next |-> j + 1]

MultihashBytes(hash) == Varint(hash.code) \o Varint(Len(hash.digest)) \o hash.digest

\* Multihash::from_bytes: a known hash code, and a digest of the stated length
MultihashFromBytes(b) ==
    LET c == ReadVarint(b, 1)
        n == IF c.ok THEN ReadVarint(b, c.next) ELSE [ok |-> FALSE]
    IN  IF ~c.ok \/ ~n.ok THEN [ok |-> FALSE]
        ELSE IF c.v \notin HashCodes \/ n.v # DigestLen \/ Len(b) - n.next + 1 # n.v
            THEN [ok |-> FALSE]
        ELSE [ok |-> TRUE, hash |-> Multihash(c.v, SubSeq(b, n.next, Len(b)))]

\* Cid::to_bytes: a version 0 identifier is its multihash alone
CidToBytes(cid) ==
    IF cid.version = 0 THEN MultihashBytes(cid.hash)
    ELSE Varint(cid.version) \o Varint(cid.codec) \o MultihashBytes(cid.hash)

\* Version::is_v0_binary: a bare SHA2-256 multihash
IsV0Binary(b) ==
    /\ Len(b) = 2 + DigestLen
    /\ b[1] = HashCode("Sha2_256")
    /\ b[2] = DigestLen

\* Cid::try_from(Vec<u8>)
CidTryFrom(b) ==
    IF IsV0Binary(b)
    THEN LET mh == MultihashFromBytes(b)
         IN  IF mh.ok THEN [ok |-> TRUE, cid |-> CidV0(mh.hash)] ELSE [ok |-> FALSE]
    ELSE LET ver == ReadVarint(b, 1)
             cod == IF ver.ok THEN ReadVarint(b, ver.next) ELSE [ok |-> FALSE]
         IN  IF ~ver.ok \/ ~cod.ok THEN [ok |-> FALSE]
             ELSE IF ver.v # 1 \/ cod.v \notin CodecCodes THEN [ok |-> FALSE]
             ELSE LET mh == MultihashFromBytes(SubSeq(b, cod.next, Len(b)))
                  IN  IF mh.ok THEN [ok |-> TRUE, cid |-> CidV1(cod.v, mh.hash)]
                      ELSE [ok |-> FALSE]

-----------------------------------------------------------------------------
(* The IPLD value model (libipld_base::ipld::Ipld).                        *)

Null == [kind |-> "Null"]
Bool(b) == [kind |-> "Bool", bool |-> b]
Integer(i) == [kind |-> "Integer", i128 |-> i]
Float(f) == [kind |-> "Float", f64 |-> f]
String(s) == [kind |-> "String", string |-> s]
Bytes(b) == [kind |-> "Bytes", bytes |-> b]
List(l) == [kind |-> "List", list |-> l]
Map(m) == [kind |-> "Map", map |-> m]
Link(cid) == [kind |-> "Link", link |-> cid]

(* BTreeMap<String, Ipld>: the entries <<key, value>> in ascending key      *)
(* order, no key twice; iteration visits them in that order.               *)

BTreeNew == <<>>

BTreeKeys(m) == [k \in 1..Len(m) |-> m[k][1]]

\* an insert that keeps arrival order instead of key order
BTreeInsertBack(m, key, value) ==
    SelectSeq(m, LAMBDA e : e[1] # key) \o <<(<<key, value>>)>>

\* BTreeMap::insert: replaces the value of a key that is present
BTreeInsert(m, key, value) ==
    IF \E k \in 1..Len(m) : m[k][1] = key
    THEN [k \in 1..Len(m) |-> IF m[k][1] = key THEN <<key, value>> ELSE m[k]]
    ELSE LET p == Cardinality({k \in 1..Len(m) : StrLess(m[k][1], key)})
         IN  SubSeq(m, 1, p) \o <<(<<key, value>>)>> \o SubSeq(m, p + 1, Len(m))

\* BTreeMap::from_iter: the entries inserted in turn, a later one winning
FromIter(entries) ==
    IF entries = <<>> THEN BTreeNew
    ELSE BTreeInsert(FromIter(SubSeq(entries, 1, Len(entries) - 1)),
                     entries[Len(entries)][1], entries[Len(entries)][2])

-----------------------------------------------------------------------------
(* JSON documents: the text as serde_json writes and reads it, token by    *)
(* token, number tokens as their characters, objects as their entries in   *)
(* document order.                                                         *)

JNull == [t |-> "null"]
JBool(b) == [t |-> "bool", b |-> b]
JNum(text) == [t |-> "num", text |-> text]
JStr(s) == [t |-> "str", s |-> s]
JArr(items) == [t |-> "arr", items |-> items]
JObj(entries) == [t |-> "obj", entries |-> entries]

Ok(v) == [ok |-> TRUE, val |-> v]
Err(e) == [ok |-> FALSE, err |-> e]

\* enum InvalidLink
InvalidEncoding(s, e) == [type |-> "InvalidEncoding", link |-> s, cause |-> e]
InvalidCid(s) == [type |-> "InvalidCid", link |-> s]

-----------------------------------------------------------------------------
(* Encoding.                                                               *)

\* Serializer::serialize_f64: a NaN or an infinity is written as null
SerializeF64(f) == IF f.class = "finite" THEN JNum(FormatF64(f)) ELSE JNull

\* Serializer::serialize_bytes: the bytes as an array of numbers
SerializeBytes(b) == JArr([k \in 1..Len(b) |-> JNum(AsciiDigits(NatToDigits(b[k])))])

\* the Ipld::Link arm of serialize: { "/": base64(cid bytes) }
SerializeLink(link) == JObj(<< <<LINK_KEY, JStr(Base64Encode(CidToBytes(link)))>> >>)

\* fn serialize
serialize(v) ==
    CASE v.kind = "Null" -> JNull
      [] v.kind = "Bool" -> JBool(v.bool)
      [] v.kind = "Integer" -> JNum(FormatI128(v.i128))
      [] v.kind = "Float" -> SerializeF64(v.f64)
      [] v.kind = "String" -> JStr(v.string)
      [] v.kind = "Bytes" -> SerializeBytes(v.bytes)
      [] v.kind = "List" -> JArr([k \in 1..Len(v.list) |-> serialize(v.list[k])])
      [] v.kind = "Map" -> JObj([k \in 1..Len(v.map) |-> <<v.map[k][1], serialize(v.map[k][2])>>])
      [] v.kind = "Link" -> SerializeLink(v.link)

\* pub fn encode: writing into a Vec never fails
encode(v) == [ok |-> TRUE, data |-> serialize(v)]

-----------------------------------------------------------------------------
(* Decoding: JSONVisitor.                                                  *)

visit_string(value) == Ok(String(value))
visit_str(value) == visit_string(value)
visit_byte_buf(v) == Ok(Bytes(v))
visit_u64(v) == Ok(Integer(v))
visit_i64(v) == Ok(Integer(v))
visit_i128(v) == Ok(Integer(v))
visit_f64(v) == Ok(Float(v))
visit_bool(v) == Ok(Bool(v))
visit_unit == Ok(Null)

\* the first result that is an error, if any (the `?` of the visitor loops)
FirstErr(rs) ==
    LET bad == {k \in 1..Len(rs) : ~rs[k].ok}
    IN  IF bad = {} THEN [ok |-> TRUE]
        ELSE rs[CHOOSE k \in bad : \A o \in bad : k <= o]

\* visit_seq, given the result of each element in turn
visit_seq(rs) ==
    IF ~FirstErr(rs).ok THEN FirstErr(rs)
    ELSE Ok(List([k \in 1..Len(rs) |-> rs[k].val]))

\* a decoder that keeps an object whose string is no identifier as a Map
DecodeLinkLenient(value) ==
    LET raw_cid == Base64Decode(value)
    IN  IF ~raw_cid.ok THEN Ok(Map(<< <<LINK_KEY, String(value)>> >>))
        ELSE LET cid == CidTryFrom(raw_cid.bytes)
             IN  IF ~cid.ok THEN Ok(Map(<< <<LINK_KEY, String(value)>> >>))
                 ELSE Ok(Link(cid.cid))

\* the link branch of visit_map: base64, then the identifier
DecodeLink(value) ==
    LET raw_cid == Base64Decode(value)
    IN  IF ~raw_cid.ok THEN Err(InvalidEncoding(value, raw_cid.err))
        ELSE LET cid == CidTryFrom(raw_cid.bytes)
             IN  IF ~cid.ok THEN Err(InvalidCid(value))
                 ELSE Ok(Link(cid.cid))

\* a shape test that takes any single string entry for a link
IsLinkShapeAnyKey(values) ==
    /\ Len(values) >= 1
    /\ values[1][2].kind = "String"
    /\ Len(values) = 1

\* whether the entries read are `{ "/": "...." }`
IsLinkShape(values) ==
    /\ Len(values) >= 1
    /\ values[1][2].kind = "String"
    /\ values[1][1] = LINK_KEY
    /\ Len(values) = 1

\* visit_map, given each entry's key and the result of its value in turn
visit_map(keys, rs) ==
    IF ~FirstErr(rs).ok THEN FirstErr(rs)
    ELSE LET values == [k \in 1..Len(rs) |-> <<keys[k], rs[k].val>>]
         IN  IF IsLinkShape(values)
             THEN DecodeLink(values[Len(values)][2].string)
             ELSE Ok(Map(FromIter(values)))

\* ParserNumber::visit: the visitor method of the number's class
VisitNumber(n) ==
    CASE n.num = "U64" -> visit_u64(n.v)
      [] n.num = "I64" -> visit_i64(n.v)
      [] n.num = "F64" -> visit_f64(n.v)

\* Deserializer::deserialize_any with JSONVisitor
deserialize(j) ==
    CASE j.t = "null" -> visit_unit
      [] j.t = "bool" -> visit_bool(j.b)
      [] j.t = "str" -> visit_str(j.s)
      [] j.t = "num" -> VisitNumber(ParseNumber(j.text))
      [] j.t = "arr" -> visit_seq([k \in 1..Len(j.items) |-> deserialize(j.items[k])])
      [] j.t = "obj" -> visit_map([k \in 1..Len(j.entries) |-> j.entries[k][1]],
                                  [k \in 1..Len(j.entries) |-> deserialize(j.entries[k][2])])

\* pub fn decode
decode(data) == deserialize(data)

-----------------------------------------------------------------------------
(* The bytes of a document, and the hash functions (crate::hash).          *)

\* the items with ',' between them
Join(parts) ==
    IF parts = <<>> THEN <<>>
    ELSE IF Len(parts) = 1 THEN parts[1]
    ELSE parts[1] \o <<44>> \o Join(Tail(parts))

Quoted(str) == <<34>> \o str \o <<34>>

\* serde_json's compact text of a document
Render(j) ==
    CASE j.t = "null" -> <<110, 117, 108, 108>>
      [] j.t = "bool" -> IF j.b THEN <<116, 114, 117, 101>> ELSE <<102, 97, 108, 115, 101>>
      [] j.t = "num" -> j.text
      [] j.t = "str" -> Quoted(j.s)
      [] j.t = "arr" -> <<91>> \o Join([k \in 1..Len(j.items) |-> Render(j.items[k])]) \o <<93>>
      [] j.t = "obj" ->
            <<123>>
            \o Join([k \in 1..Len(j.entries) |->
                        Quoted(j.entries[k][1]) \o <<58>> \o Render(j.entries[k][2])])
            \o <<125>>

Hashes == {"Sha2_256", "Blake2b256"}

Fold(bytes, acc, m) ==
    IF bytes = <<>> THEN acc ELSE Fold(Tail(bytes), (acc * m + Head(bytes)) % 251, m)

\* Hash::digest: the multihash, under the algorithm's code, of the data;
\* a small mixing function stands for the algorithm
Digest(h, data) ==
    Multihash(HashCode(h),
              [k \in 1..DigestLen |->
                  Fold(Render(data), k, IF h = "Sha2_256" THEN 31 ELSE 37)])

-----------------------------------------------------------------------------
(* RawBlock and Block<TCodec, THash> (src/block.rs).                       *)

Codecs == {"DagJson", "DagCbor"}

\* RawBlock::new
RawBlock(cid, data) == [cid |-> cid, data |-> data]

\* struct Block: the two type parameters, and the raw block
Block(c, h, raw) == [codec |-> c, hash |-> h, raw |-> raw]

\* ToBytes::to_bytes of DagJson: the encoding, which cannot fail
ToBytes(v) == encode(v).data

\* Codec::from_bytes of DagJson
FromBytes(data) == decode(data)

\* a constructor that writes one codec code whatever the binding
BlockFromFixedCodec(c, h, v) ==
    LET data == ToBytes(v)
        hash == Digest(h, data)
    IN  Block(c, h, RawBlock(CidV1(CodecCode("DagCbor"), hash), data))

\* impl From<&Ipld> for Block
BlockFrom(c, h, v) ==
    LET data == ToBytes(v)
        hash == Digest(h, data)
        cid == CidV1(CodecCode(c), hash)
    IN  Block(c, h, RawBlock(cid, data))

CodecMismatch == "Codec doesn't match"
HashMismatch == "Hash code doesn't match"
DigestMismatch == "Block hash does not match block data"

\* a conversion that compares the hash code before the codec
BlockTryFromHashFirst(c, h, raw) ==
    IF raw.cid.hash.code # HashCode(h) THEN Err(HashMismatch)
    ELSE IF raw.cid.codec # CodecCode(c) THEN Err(CodecMismatch)
    ELSE IF raw.cid.hash # Digest(h, raw.data) THEN Err(DigestMismatch)
    ELSE Ok(Block(c, h, raw))

\* a conversion that does not hash the data
BlockTryFromNoDigest(c, h, raw) ==
    IF raw.cid.codec # CodecCode(c) THEN Err(CodecMismatch)
    ELSE IF raw.cid.hash.code # HashCode(h) THEN Err(HashMismatch)
    ELSE Ok(Block(c, h, raw))

\* impl TryFrom<RawBlock> for Block
BlockTryFrom(c, h, raw) ==
    IF raw.cid.codec # CodecCode(c) THEN Err(CodecMismatch)
    ELSE IF raw.cid.hash.code # HashCode(h) THEN Err(HashMismatch)
    ELSE IF raw.cid.hash # Digest(h, raw.data) THEN Err(DigestMismatch)
    ELSE Ok(Block(c, h, raw))

\* Block::raw, Block::cid, Block::data
BlockRaw(b) == b.raw
BlockCid(b) == b.raw.cid
BlockData(b) == b.raw.data

\* Block::split and RawBlock::into
RawInto(raw) == <<raw.cid, raw.data>>
BlockSplit(b) == RawInto(b.raw)

\* Block::to_raw, and impl From<Block> for RawBlock
BlockToRaw(b) == b.raw

\* Block::ipld
BlockIpld(b) == FromBytes(BlockData(b))

-----------------------------------------------------------------------------
(* The values and documents the model draws its inputs from.               *)

SumSeq(ns) == IF ns = <<>> THEN 0 ELSE Head(ns) + SumSeq(Tail(ns))

Nodes(v) ==
    CASE v.kind = "List" -> 1 + SumSeq([k \in 1..Len(v.list) |-> Nodes(v.list[k])])
      [] v.kind = "Map" -> 1 + SumSeq([k \in 1..Len(v.map) |-> Nodes(v.map[k][2])])
      [] OTHER -> 1

DocNodes(j) ==
    CASE j.t = "arr" -> 1 + SumSeq([k \in 1..Len(j.items) |-> DocNodes(j.items[k])])
      [] j.t = "obj" -> 1 + SumSeq([k \in 1..Len(j.entries) |-> DocNodes(j.entries[k][2])])
      [] OTHER -> 1

\* "details", "name" and the link key
KeyDetails == <<100, 101, 116, 97, 105, 108, 115>>
KeyName == <<110, 97, 109, 101>>
Keys == {LINK_KEY, KeyDetails, KeyName}

\* two identifiers: a version 1 one, and a version 0 one as in encode_struct
CidA == CidV1(CodecCode("DagCbor"), Multihash(HashCode("Blake2b256"), [k \in 1..DigestLen |-> 200 + k]))
CidB == CidV0(Multihash(HashCode("Sha2_256"), [k \in 1..DigestLen |-> 7 * k]))

\* "Hello", "invalidcid" (not base64), base64 of bytes that are no identifier
\* ("aaaa"), and the base64 of CidA
StrHello == <<72, 101, 108, 108, 111>>
StrInvalidCid == <<105, 110, 118, 97, 108, 105, 100, 99, 105, 100>>
StrNotCid == <<97, 97, 97, 97>>
StrCidA == Base64Encode(CidToBytes(CidA))
Strings == {StrHello, StrInvalidCid, StrNotCid, StrCidA}

\* integers at the edges of the 64-bit and of the 128-bit range
Integers128 ==
    { Int128(FALSE, <<0>>), Int128(FALSE, <<1>>), Int128(TRUE, <<1>>),
      Int128(FALSE, U64Max), Int128(FALSE, Increment(U64Max)),
      Int128(TRUE, I64MinAbs), Int128(TRUE, Increment(I64MinAbs)),
      Int128(FALSE, I128Max), Int128(TRUE, I128MinAbs) }

Floats == {Finite(FALSE, <<1, 5>>, -1), Finite(TRUE, <<2, 5>>, 18), NaN, Infinity(FALSE)}

IpldScalars ==
    {Null, Bool(TRUE), Bool(FALSE)}
    \cup {Integer(i) : i \in Integers128}
    \cup {Float(f) : f \in Floats}
    \cup {String(s) : s \in Strings}
    \cup {Bytes(<<>>), Bytes(<<1, 2, 255>>)}
    \cup {Link(CidA), Link(CidB)}

\* what a container is built around, and what is then put into it
IpldLeaves ==
    { Null, Integer(Int128(FALSE, Increment(U64Max))), Float(NaN), String(StrCidA),
      String(StrInvalidCid), Bytes(<<1, 2, 255>>), Link(CidA), Link(CidB) }
IpldFillers == {String(StrHello), Integer(Int128(FALSE, <<1>>))}

\* number tokens: integers, also past the 128-bit range, fractions, exponents
NumberTokens ==
    {FormatI128(i) : i \in Integers128}
    \cup {AsciiDigits(Increment(I128Max)), <<49, 46, 53>>, <<49, 101, 50>>, <<45, 50, 46, 53, 69, 45, 49>>}

DocScalars ==
    {JNull, JBool(TRUE)}
    \cup {JNum(t) : t \in NumberTokens}
    \cup {JStr(s) : s \in Strings}

DocLeaves ==
    { JNull, JNum(<<49>>), JNum(AsciiDigits(Increment(U64Max))), JStr(StrHello),
      JStr(StrCidA), JStr(StrInvalidCid), JStr(StrNotCid) }
DocFillers == {JStr(StrCidA), JNum(<<49>>)}

NoResult == [none |-> TRUE]

-----------------------------------------------------------------------------
(* The codec: a producer builds a value and encodes it, or a document is   *)
(* received; the document is then decoded.                                 *)

Init ==
    /\ \/ /\ ipld \in IpldScalars \cup {List(<<>>), Map(BTreeNew)}
          /\ doc = JNull
          /\ origin = "none"
       \/ /\ ipld = Null
          /\ doc \in DocScalars \cup {JArr(<<>>), JObj(<<>>)}
          /\ origin = "input"
    /\ hist = <<>>
    /\ out = NoResult
    /\ blocks = {}
    /\ raws = {}
    /\ last = [op |-> "none"]

UnchangedBlocks == UNCHANGED <<blocks, raws, last>>

\* Vec::push on the list held
ListPush(f) ==
    /\ origin = "none"
    /\ ipld.kind = "List"
    /\ Nodes(ipld) < MaxNodes
    /\ ipld' = List(Append(ipld.list, f))
    /\ UNCHANGED <<hist, doc, origin, out>>
    /\ UnchangedBlocks

\* map.insert(key, value) on the map held, as in encode_struct
MapInsert(key, f) ==
    /\ origin = "none"
    /\ ipld.kind = "Map"
    /\ Nodes(Map(BTreeInsert(ipld.map, key, f))) <= MaxNodes
    /\ ipld' = Map(BTreeInsert(ipld.map, key, f))
    /\ hist' = IF key \in Range(hist) THEN hist ELSE Append(hist, key)
    /\ UNCHANGED <<doc, origin, out>>
    /\ UnchangedBlocks

\* the value held becomes the one element of a new list
WrapList ==
    /\ origin = "none"
    /\ ipld \in IpldLeaves \/ ipld.kind \in {"List", "Map"}
    /\ Nodes(ipld) < MaxNodes
    /\ ipld' = List(<<ipld>>)
    /\ hist' = <<>>
    /\ UNCHANGED <<doc, origin, out>>
    /\ UnchangedBlocks

\* the value held becomes the one entry of a new map
WrapMap(key) ==
    /\ origin = "none"
    /\ ipld \in IpldLeaves \/ ipld.kind \in {"List", "Map"}
    /\ Nodes(ipld) < MaxNodes
    /\ ipld' = Map(BTreeInsert(BTreeNew, key, ipld))
    /\ hist' = <<key>>
    /\ UNCHANGED <<doc, origin, out>>
    /\ UnchangedBlocks

\* encode(&ipld)
Encode ==
    /\ origin = "none"
    /\ encode(ipld).ok
    /\ doc' = encode(ipld).data
    /\ origin' = "encode"
    /\ UNCHANGED <<ipld, hist, out>>
    /\ UnchangedBlocks

\* a received document grows: an element at the end of its array
DocPush(f) ==
    /\ origin = "input" /\ out = NoResult
    /\ doc.t = "arr"
    /\ DocNodes(doc) < MaxNodes
    /\ doc' = JArr(Append(doc.items, f))
    /\ UNCHANGED <<ipld, hist, origin, out>>
    /\ UnchangedBlocks

\* an entry at the front or at the end of its object (keys may repeat)
DocAddEntry(key, f, front) ==
    /\ origin = "input" /\ out = NoResult
    /\ doc.t = "obj"
    /\ DocNodes(doc) < MaxNodes
    /\ doc' = JObj(IF front THEN <<(<<key, f>>)>> \o doc.entries
                            ELSE Append(doc.entries, <<key, f>>))
    /\ UNCHANGED <<ipld, hist, origin, out>>
    /\ UnchangedBlocks

DocWrapArr ==
    /\ origin = "input" /\ out = NoResult
    /\ doc \in DocLeaves \/ doc.t \in {"arr", "obj"}
    /\ DocNodes(doc) < MaxNodes
    /\ doc' = JArr(<<doc>>)
    /\ UNCHANGED <<ipld, hist, origin, out>>
    /\ UnchangedBlocks

DocWrapObj(key) ==
    /\ origin = "input" /\ out = NoResult
    /\ doc \in DocLeaves \/ doc.t \in {"arr", "obj"}
    /\ DocNodes(doc) < MaxNodes
    /\ doc' = JObj(<< <<key, doc>> >>)
    /\ UNCHANGED <<ipld, hist, origin, out>>
    /\ UnchangedBlocks

\* decode(&data)
Decode ==
    /\ origin # "none" /\ out = NoResult
    /\ out' = decode(doc)
    /\ UNCHANGED <<ipld, hist, doc, origin>>
    /\ UnchangedBlocks

Next ==
    \/ \E f \in IpldFillers : ListPush(f)
    \/ \E key \in Keys, f \in IpldFillers : MapInsert(key, f)
    \/ WrapList
    \/ \E key \in Keys : WrapMap(key)
    \/ Encode
    \/ \E f \in DocFillers : DocPush(f)
    \/ \E key \in Keys, f \in DocFillers, front \in BOOLEAN : DocAddEntry(key, f, front)
    \/ DocWrapArr
    \/ \E key \in Keys : DocWrapObj(key)
    \/ Decode

Spec == Init /\ [][Next]_vars

-----------------------------------------------------------------------------
(* Blocks: values are made into blocks, raw blocks arrive, and raw blocks  *)
(* are verified into blocks.  from and ipld are those of the DagJson       *)
(* binding, whose encoder is the one above; try_from is bound to either    *)
(* codec, and needs no encoder.                                            *)

\* the values blocks are made from: a list of one link, as in
\* test_block_from_ipld, and a map whose one key is the link key
BlockValues == { List(<<Link(CidA)>>), Map(<< <<LINK_KEY, String(StrHello)>> >>) }

Datas == {ToBytes(v) : v \in BlockValues}

\* identifiers a raw block may arrive with: either codec, either hash code,
\* and the digest, under that hash, of its data or of other data
RawCids ==
    { CidV1(CodecCode(c), Multihash(HashCode(h), Digest(h, x).digest)) :
        c \in Codecs, h \in Hashes, x \in Datas }

InitBlock ==
    /\ ipld = Null
    /\ hist = <<>>
    /\ doc = JNull
    /\ origin = "none"
    /\ out = NoResult
    /\ blocks = {}
    /\ raws = {}
    /\ last = [op |-> "none"]

UnchangedCodec == UNCHANGED <<ipld, hist, doc, origin, out>>

\* Block::<DagJson, h>::from(v)
From(h, v) ==
    LET b == BlockFrom("DagJson", h, v)
    IN  /\ Cardinality(blocks \cup {b}) <= MaxBlocks
        /\ blocks' = blocks \cup {b}
        /\ last' = [op |-> "from", ipld |-> v, block |-> b]
        /\ UNCHANGED raws
        /\ UnchangedCodec

\* RawBlock::new(cid, data)
RawNew(cid, data) ==
    LET r == RawBlock(cid, data)
    IN  /\ raws = {}
        /\ raws' = {r}
        /\ last' = [op |-> "new", raw |-> r]
        /\ UNCHANGED blocks
        /\ UnchangedCodec

\* Block::<c, h>::try_from(raw): the raw block is moved in
TryFrom(c, h, raw) ==
    LET res == BlockTryFrom(c, h, raw)
        after == IF res.ok THEN blocks \cup {res.val} ELSE blocks
    IN  /\ raw \in raws
        /\ Cardinality(after) <= MaxBlocks
        /\ blocks' = after
        /\ raws' = raws \ {raw}
        /\ last' = [op |-> "try_from", codec |-> c, hash |-> h, raw |-> raw, res |-> res]
        /\ UnchangedCodec

\* block.clone()
Clone(b) ==
    /\ b \in blocks
    /\ last' = [op |-> "clone", block |-> b]
    /\ UNCHANGED <<blocks, raws>>
    /\ UnchangedCodec

\* block.to_raw(), or block.clone().to_raw() which keeps the block
ToRaw(b, cloned) ==
    /\ b \in blocks
    /\ raws = {}
    /\ raws' = {BlockToRaw(b)}
    /\ blocks' = IF cloned THEN blocks ELSE blocks \ {b}
    /\ last' = [op |-> "to_raw", raw |-> BlockToRaw(b)]
    /\ UnchangedCodec

\* block.split()
Split(b) ==
    /\ b \in blocks
    /\ blocks' = blocks \ {b}
    /\ last' = [op |-> "split", parts |-> BlockSplit(b)]
    /\ UNCHANGED raws
    /\ UnchangedCodec

\* block.raw(), block.cid(), block.data()
Access(b, which) ==
    /\ b \in blocks
    /\ last' = [op |-> which,
                val |-> CASE which = "raw" -> BlockRaw(b)
                          [] which = "cid" -> BlockCid(b)
                          [] which = "data" -> BlockData(b)]
    /\ UNCHANGED <<blocks, raws>>
    /\ UnchangedCodec

\* block.ipld()
Ipld(b) ==
    /\ b \in blocks
    /\ b.codec = "DagJson"
    /\ last' = [op |-> "ipld", block |-> b, res |-> BlockIpld(b)]
    /\ UNCHANGED <<blocks, raws>>
    /\ UnchangedCodec

\* raw.into()
Into(raw) ==
    /\ raw \in raws
    /\ raws' = raws \ {raw}
    /\ last' = [op |-> "into", parts |-> RawInto(raw)]
    /\ UNCHANGED blocks
    /\ UnchangedCodec

NextBlock ==
    \/ \E h \in Hashes, v \in BlockValues : From(h, v)
    \/ \E cid \in RawCids, data \in Datas : RawNew(cid, data)
    \/ \E c \in Codecs, h \in Hashes, raw \in raws : TryFrom(c, h, raw)
    \/ \E b \in blocks : Clone(b)
    \/ \E b \in blocks, cloned \in BOOLEAN : ToRaw(b, cloned)
    \/ \E b \in blocks : Split(b)
    \/ \E b \in blocks, which \in {"raw", "cid", "data"} : Access(b, which)
    \/ \E b \in blocks : Ipld(b)
    \/ \E raw \in raws : Into(raw)

SpecBlock == InitBlock /\ [][NextBlock]_vars

-----------------------------------------------------------------------------
(* Places in a document, for the properties below.                         *)

Children(j) ==
    CASE j.t = "arr" -> j.items
      [] j.t = "obj" -> [k \in 1..Len(j.entries) |-> j.entries[k][2]]
      [] OTHER -> <<>>

\* the paths (child indices from the root) of a document
Positions(j) ==
    {<<>>} \cup UNION { {<<k>> \o p : p \in Positions(Children(j)[k])} : k \in 1..Len(Children(j)) }

At(j, p) == IF p = <<>> THEN j ELSE At(Children(j)[p[1]], Tail(p))

ObjKeys(o) == [k \in 1..Len(o.entries) |-> o.entries[k][1]]

\* an entry is shadowed when a later entry of its object has the same key
Shadowed(o, k) == \E l \in (k + 1)..Len(o.entries) : o.entries[l][1] = o.entries[k][1]

\* no step of the path enters a shadowed entry
Visible(j, p) ==
    \/ p = <<>>
    \/ /\ ~(j.t = "obj" /\ Shadowed(j, p[1]))
       /\ Visible(Children(j)[p[1]], Tail(p))

MapGet(m, key) == (CHOOSE e \in Range(m) : e[1] = key)[2]

\* the part of the decoded value v of document j that stands at path p
ValAt(j, v, p) ==
    IF p = <<>> THEN v
    ELSE IF j.t = "arr" THEN ValAt(j.items[p[1]], v.list[p[1]], Tail(p))
    ELSE ValAt(j.entries[p[1]][2], MapGet(v.map, j.entries[p[1]][1]), Tail(p))

\* { "/": "<string>" } and nothing else
IsLinkObject(o) ==
    /\ o.t = "obj"
    /\ Len(o.entries) = 1
    /\ o.entries[1][1] = LINK_KEY
    /\ o.entries[1][2].t = "str"

LinkString(o) == o.entries[1][2].s

\* what the string of a link object is: "link", "encoding" or "identifier"
LinkClass(s) ==
    IF ~Base64Decode(s).ok THEN "encoding"
    ELSE IF ~CidTryFrom(Base64Decode(s).bytes).ok THEN "identifier"
    ELSE "link"

LinkCid(s) == CidTryFrom(Base64Decode(s).bytes).cid

LinkPositions(j) == {p \in Positions(j) : IsLinkObject(At(j, p))}
BadLinkPositions(j) == {p \in LinkPositions(j) : LinkClass(LinkString(At(j, p))) # "link"}

\* the bad link object that comes first in the document
FirstBadLink(j) ==
    CHOOSE p \in BadLinkPositions(j) : \A q \in BadLinkPositions(j) : q = p \/ StrLess(p, q)

\* the error is the link error of the object at p, carrying its string
IsLinkErrorOf(e, o) ==
    /\ e.link = LinkString(o)
    /\ e.type = (IF LinkClass(LinkString(o)) = "encoding" THEN "InvalidEncoding" ELSE "InvalidCid")

HasBytes(v) ==
    CASE v.kind = "Bytes" -> TRUE
      [] v.kind = "List" -> \E k \in 1..Len(v.list) : HasBytes(v.list[k])
      [] v.kind = "Map" -> \E k \in 1..Len(v.map) : HasBytes(v.map[k][2])
      [] OTHER -> FALSE

IsIntegerToken(t) == \A k \in 1..Len(t) : IsDigit(t[k]) \/ (k = 1 /\ t[k] = 45 /\ Len(t) > 1)

\* the integer an integer token denotes
TokenInteger(t) ==
    IF t[1] = 45 THEN Int128(Tail(t) # <<48>>, DigitValues(Tail(t))) ELSE Int128(FALSE, DigitValues(t))

-----------------------------------------------------------------------------
(* Properties of the codec.                                                *)

\* C1: round trip. Every value without Bytes encodes, and decoding the
\* encoding gives the value back.
RoundTrip ==
    (origin = "encode" /\ out # NoResult /\ ~HasBytes(ipld)) => out = Ok(ipld)

NonLinkShape(o) ==
    /\ o.t = "obj"
    /\ \/ o.entries = <<>>
       \/ /\ LINK_KEY \in Range(ObjKeys(o))
          /\ \E key \in Range(ObjKeys(o)) : key # LINK_KEY
       \/ Len(o.entries) = 1 /\ o.entries[1][1] # LINK_KEY
       \/ Len(o.entries) = 1 /\ o.entries[1][1] = LINK_KEY /\ o.entries[1][2].t # "str"

StrictlyAscending(keys) == \A k \in 1..(Len(keys) - 1) : StrLess(keys[k], keys[k + 1])

\* C7: canonical key order. Every object of an encoding has its keys in
\* strictly ascending order, the keys of the Map it encodes; and inserting
\* two entries in either order gives the same encoding.
CanonicalKeyOrder ==
    /\ origin = "encode" =>
          /\ \A p \in Positions(doc) :
                At(doc, p).t = "obj" => StrictlyAscending(ObjKeys(At(doc, p)))
          /\ ipld.kind = "Map" =>
                /\ ObjKeys(doc) = BTreeKeys(ipld.map)
                /\ Range(hist) \subseteq Range(ObjKeys(doc))
    /\ (origin = "none" /\ ipld.kind = "Map") =>
          \A k1 \in Keys, k2 \in Keys, f1 \in IpldFillers, f2 \in IpldFillers :
              k1 # k2 =>
                  encode(Map(BTreeInsert(BTreeInsert(ipld.map, k1, f1), k2, f2)))
                    = encode(Map(BTreeInsert(BTreeInsert(ipld.map, k2, f2), k1, f1)))

\* C7 witness: "name" was inserted before "details", and the encoding has
\* "details" before "name".
CanonicalKeyOrderWitness ==
    /\ origin = "encode"
    /\ hist = <<KeyName, KeyDetails>>
    /\ ObjKeys(doc) = <<KeyDetails, KeyName>>

\* C8: Bytes encode to one JSON string, the base64 of the bytes, which
\* decodes to the String of that base64.
BytesEncodeAsBase64String ==
    (origin = "encode" /\ ipld.kind = "Bytes") =>
        /\ doc = JStr(Base64Encode(ipld.bytes))
        /\ out # NoResult => out = Ok(String(Base64Encode(ipld.bytes)))

\* C10: an integer token within the signed 128-bit range decodes to exactly
\* that Integer, any other number token to a Float; an encoded Integer
\* decodes to itself.
IntegerTokensDecodeExactly ==
    /\ (out # NoResult /\ doc.t = "num") =>
          IF IsIntegerToken(doc.text)
          THEN InI128(TokenInteger(doc.text)) => out = Ok(Integer(TokenInteger(doc.text)))
          ELSE out.ok /\ out.val.kind = "Float"
    /\ (out # NoResult /\ origin = "encode" /\ ipld.kind = "Integer") => out = Ok(ipld)

-----------------------------------------------------------------------------
(* Properties of Block and RawBlock.                                       *)

\* the three conditions a Block is a proof of
BlockHolds(b) ==
    /\ b.raw.cid.codec = CodecCode(b.codec)
    /\ b.raw.cid.hash.code = HashCode(b.hash)
    /\ b.raw.cid.hash = Digest(b.hash, b.raw.data)

RawHolds(c, h, raw) ==
    /\ raw.cid.codec = CodecCode(c)
    /\ raw.cid.hash.code = HashCode(h)
    /\ raw.cid.hash = Digest(h, raw.data)

\* C2: block invariant. Every Block held, and every Block an operation has
\* just returned, has the codec code and the hash code of its binding in
\* its identifier, and the digest of its data.
BlockInvariant ==
    /\ \A b \in blocks : BlockHolds(b)
    /\ last.op \in {"from", "clone", "ipld"} => BlockHolds(last.block)
    /\ (last.op = "try_from" /\ last.res.ok) => BlockHolds(last.res.val)

\* C2 witness: a Block made by try_from is held while a RawBlock that fits
\* no binding is in flight.
BlockInvariantWitness ==
    /\ \E b \in blocks : b.codec = "DagCbor"
    /\ \E raw \in raws : \A c \in Codecs, h \in Hashes : ~RawHolds(c, h, raw)

\* C3: try_from checks the codec, then the hash code, then the digest, and
\* reports the first check that fails; it succeeds, with the Block of the
\* raw block, exactly when all three hold.
TryFromOrder ==
    /\ Cardinality({CodecMismatch, HashMismatch, DigestMismatch}) = 3
    /\ last.op = "try_from" =>
          /\ last.raw.cid.codec # CodecCode(last.codec) => last.res = Err(CodecMismatch)
          /\ (/\ last.raw.cid.codec = CodecCode(last.codec)
              /\ last.raw.cid.hash.code # HashCode(last.hash)) => last.res = Err(HashMismatch)
          /\ (/\ last.raw.cid.codec = CodecCode(last.codec)
              /\ last.raw.cid.hash.code = HashCode(last.hash)
              /\ last.raw.cid.hash # Digest(last.hash, last.raw.data)) =>
                    last.res = Err(DigestMismatch)
          /\ last.res.ok <=> RawHolds(last.codec, last.hash, last.raw)
          /\ last.res.ok => last.res.val = Block(last.codec, last.hash, last.raw)
          /\ ~last.res.ok => \A b \in blocks : BlockHolds(b) /\ last.raw \notin raws

\* C3 witness: the codec code and the hash code are both wrong, and the
\* codec mismatch is the one reported.
TryFromOrderWitness ==
    /\ last.op = "try_from"
    /\ last.raw.cid.codec # CodecCode(last.codec)
    /\ last.raw.cid.hash.code # HashCode(last.hash)
    /\ last.res = Err(CodecMismatch)

\* C4: from(v) gives a Block for every value, and try_from, under the same
\* binding, of the raw block of from(v) succeeds with a Block equal to it.
FromThenTryFrom ==
    /\ last.op = "from" =>
          /\ last.block \in blocks
          /\ last.block.raw.data = encode(last.ipld).data
    /\ (last.op = "try_from" /\ last.codec = "DagJson") =>
          \A v \in BlockValues :
              last.raw = BlockToRaw(BlockFrom(last.codec, last.hash, v)) =>
                  last.res = Ok(BlockFrom(last.codec, last.hash, v))

\* C4 witness: try_from has succeeded on the raw block of a Block made from
\* a value.
FromThenTryFromWitness ==
    /\ last.op = "try_from" /\ last.codec = "DagJson"
    /\ \E v \in BlockValues : last.raw = BlockToRaw(BlockFrom(last.codec, last.hash, v))
    /\ last.res.ok
    /\ last.res.val \in blocks

\* C9: ipld() of the Block made from a value without Bytes gives the value
\* back.
IpldOfBlockFromValue ==
    last.op = "ipld" =>
        \A v \in BlockValues, h \in Hashes :
            (~HasBytes(v) /\ last.block = BlockFrom("DagJson", h, v)) => last.res = Ok(v)

====
